---- MODULE Spec2Model ----
(***************************************************************************)
(* WebSocketMCPTransport (examples/hono/src/mcp-ws-example.ts): the        *)
(* connection lifecycle (start, _connect, close), the send path and the    *)
(* receive path, as a state machine.  One action is one run of the         *)
(* JavaScript event loop: a call of the consumer, a socket event with the  *)
(* handlers it runs, a timer, each followed by the continuations           *)
(* (microtasks) it makes runnable.                                         *)
(***************************************************************************)
EXTENDS Naturals, Sequences, FiniteSets

\* ---------------------------------------------------------------- constants
MAX_RETRIES == 3
RETRY_DELAY_MS == 1000

\* ------------------------------------------------------------------- bounds
\* start() and close() calls in the lifecycle specification
MaxStarts == 2
MaxCloses == 2
\* start(), close() and send() calls in the send specification
SendStarts == 1
SendCloses == 1
MaxSends == 1
\* start() calls in the reconnect specification
ResendStarts == 2
\* start() and close() calls, and inbound frames, in the receive specification
RecvStarts == 1
RecvCloses == 1
MaxFrames == 3
FairStarts == 1
FairCloses == 1
FairSends == 1

StartCalls == 1..MaxStarts
SendCalls == 1..MaxSends
\* every connect attempt of every start() call may create one socket
Sockets == 1..(MaxStarts * MAX_RETRIES)

VARIABLES
    urlOk,          \* does `new WebSocket(this.url.href, ...)` accept the URL
    connected,      \* this.connected
    socket,         \* this.socket: a socket id, 0 for undefined
    aborted,        \* this.abortController.signal.aborted
    nsock,          \* number of WebSocket objects created so far
    sock,           \* the WebSocket objects: readyState, and whether close() ended it
    start,          \* the start() calls
    send,           \* the send() calls
    closeCalls,     \* number of close() calls made
    cb,             \* the consumer's callbacks: invocation counts and last arguments
    recv            \* the receive path: frames emitted (their number, the last one,
                    \* what each carried) and messages delivered

vars == <<urlOk, connected, socket, aborted, nsock, sock, start, send, closeCalls, cb, recv>>

\* ------------------------------------------------------------------- errors
\* new Error('... Connection error'), line 125, caused by socket s
ConnectionError(s) == [kind |-> "ConnectionError", of |-> s, cause |-> "event.error"]
\* what `new WebSocket` throws, caught at line 162
ConstructorError == [kind |-> "ConstructorError", of |-> 0, cause |-> ""]
NotConnected == [kind |-> "NotConnected", of |-> 0, cause |-> ""]
SocketNotOpen == [kind |-> "SocketNotOpen", of |-> 0, cause |-> ""]
\* new Error('... Failed to send message'), lines 199 and 207, of attempt k
FailedToSend(k) == [kind |-> "FailedToSend", of |-> k, cause |-> "write"]
\* reading readyState of undefined at line 191
TypeError == [kind |-> "TypeError", of |-> 0, cause |-> ""]
\* new Error('... Failed to parse message'), line 156, with its cause
FailedToParse(cause) == [kind |-> "FailedToParse", of |-> 0, cause |-> cause]
NoError == [kind |-> "none", of |-> 0, cause |-> ""]
\* what the consumer's error callback keeps of its argument
Seen(error) == [kind |-> error.kind, cause |-> error.cause]

\* ---------------------------------------------------------------- the calls
StartIdle ==
    [pc |-> "idle", attempts |-> 0, sock |-> 0, err |-> NoError,
     connects |-> 0, waited |-> 0, errCb |-> 0, noop |-> FALSE]

SendIdle ==
    [pc |-> "idle", attempts |-> 0, err |-> NoError, hist |-> <<>>,
     writes |-> 0, waited |-> 0, errCb |-> 0, connectedAtCall |-> FALSE]

NoSocket == [ready |-> "NONE", byClose |-> FALSE]

Init ==
    /\ urlOk \in BOOLEAN
    /\ connected = FALSE
    /\ socket = 0
    /\ aborted = FALSE
    /\ nsock = 0
    /\ sock = [s \in Sockets |-> NoSocket]
    /\ start = [c \in StartCalls |-> StartIdle]
    /\ send = [c \in SendCalls |-> SendIdle]
    /\ closeCalls = 0
    /\ cb = [error |-> 0, close |-> 0, closeByClose |-> 0, lastError |-> Seen(NoError)]
    /\ recv = [frames |-> 0, last |-> <<>>, log |-> <<>>, delivered |-> <<>>]

\* ------------------------------------------------------------------ start()
\* a catch block that gives up only after MAX_RETRIES retries
StartCatchOneMore(st, error) ==
    IF st.attempts + 1 > MAX_RETRIES
    THEN [st EXCEPT !.attempts = @ + 1, !.pc = "failed", !.err = error]
    ELSE [st EXCEPT !.attempts = @ + 1, !.pc = "backoff"]

\* a catch block that keeps the first error and throws that one
StartCatchFirstError(st, error) ==
    IF st.attempts + 1 = MAX_RETRIES
    THEN [st EXCEPT !.attempts = @ + 1, !.pc = "failed",
                    !.err = IF @ = NoError THEN error ELSE @]
    ELSE [st EXCEPT !.attempts = @ + 1, !.pc = "backoff",
                    !.err = IF @ = NoError THEN error ELSE @]

\* the catch block of start(), lines 106-112, on the call's record
StartCatch(st, error) ==
    IF st.attempts + 1 = MAX_RETRIES
    THEN [st EXCEPT !.attempts = @ + 1, !.pc = "failed", !.err = error]
    ELSE [st EXCEPT !.attempts = @ + 1, !.pc = "backoff"]

\* _connect(), lines 116-166, called by start() call c whose record is st
Connect(c, st) ==
    IF urlOk
    THEN /\ nsock' = nsock + 1
         /\ sock' = [sock EXCEPT ![nsock + 1] = [ready |-> "CONNECTING", byClose |-> FALSE]]
         /\ socket' = nsock + 1
         /\ start' = [start EXCEPT ![c] =
                [st EXCEPT !.pc = "connecting", !.sock = nsock + 1, !.connects = @ + 1]]
    ELSE \* the constructor throws: reject(error), and start() catches it
         /\ start' = [start EXCEPT ![c] =
                StartCatch([st EXCEPT !.connects = @ + 1], ConstructorError)]
         /\ UNCHANGED <<nsock, sock, socket>>

\* a start() without its guard
AlreadyConnectedNever == FALSE

\* the guard of start(), lines 96-98
AlreadyConnected == connected

\* start(), lines 95-103: the call up to its first await
Start(c) ==
    /\ start[c].pc = "idle"
    /\ c > 1 => start[c - 1].pc # "idle"
    /\ IF AlreadyConnected
       THEN /\ start' = [start EXCEPT ![c] = [@ EXCEPT !.pc = "resolved", !.noop = TRUE]]
            /\ UNCHANGED <<nsock, sock, socket>>
       ELSE Connect(c, start[c])
    /\ UNCHANGED <<urlOk, connected, aborted, send, closeCalls, cb, recv>>

\* delay(RETRY_DELAY_MS) of line 111 elapses and the loop calls _connect() again
StartRetry(c) ==
    /\ start[c].pc = "backoff"
    /\ Connect(c, [start[c] EXCEPT !.waited = @ + RETRY_DELAY_MS])
    /\ UNCHANGED <<urlOk, connected, aborted, send, closeCalls, cb, recv>>

\* the start() call awaiting the promise of the _connect() that created socket s
Awaiting(s) == {c \in StartCalls : start[c].pc = "connecting" /\ start[c].sock = s}

\* socket.onopen, lines 131-133, then start() resumes at lines 104-105
SocketOpen(s) ==
    /\ sock[s].ready = "CONNECTING"
    /\ ~aborted
    /\ sock' = [sock EXCEPT ![s].ready = "OPEN"]
    /\ connected' = TRUE
    /\ start' = [c \in StartCalls |->
            IF c \in Awaiting(s) THEN [start[c] EXCEPT !.pc = "resolved"] ELSE start[c]]
    /\ UNCHANGED <<urlOk, socket, aborted, nsock, send, closeCalls, cb, recv>>

\* socket.onclose, lines 135-138, on the callback record
OnClose(s, k) ==
    [k EXCEPT !.close = @ + 1,
              !.closeByClose = IF sock[s].byClose THEN @ + 1 ELSE @]

\* socket.onerror, lines 124-129, on the callback record
OnError(s, k) == [k EXCEPT !.error = @ + 1, !.lastError = Seen(ConnectionError(s))]

\* a handshake failure whose onerror handler does not reject the connect promise
SocketConnectErrorNoReject(s) ==
    /\ sock[s].ready = "CONNECTING"
    /\ sock' = [sock EXCEPT ![s].ready = "CLOSED"]
    /\ cb' = OnClose(s, OnError(s, cb))
    /\ connected' = FALSE
    /\ UNCHANGED <<urlOk, socket, aborted, nsock, start, send, closeCalls, recv>>

\* the handshake of socket s fails: the socket emits 'error' and then 'close'
\* (lines 124-129, 135-138), and start() catches the rejection (lines 106-112)
SocketConnectError(s) ==
    /\ sock[s].ready = "CONNECTING"
    /\ sock' = [sock EXCEPT ![s].ready = "CLOSED"]
    /\ cb' = OnClose(s, OnError(s, cb))
    /\ connected' = FALSE
    /\ start' = [c \in StartCalls |->
            IF c \in Awaiting(s)
            THEN StartCatch([start[c] EXCEPT !.errCb = @ + (OnError(s, cb).error - cb.error)],
                            ConnectionError(s))
            ELSE start[c]]
    /\ UNCHANGED <<urlOk, socket, aborted, nsock, send, closeCalls, recv>>

\* an open socket emits 'error' (a protocol error): lines 124-129; reject() is
\* without effect on the settled promise
SocketError(s) ==
    /\ sock[s].ready = "OPEN"
    /\ sock' = [sock EXCEPT ![s].ready = "CLOSING"]
    /\ cb' = OnError(s, cb)
    /\ UNCHANGED <<urlOk, connected, socket, aborted, nsock, start, send, closeCalls, recv>>

\* the closing handshake of an open socket begins: readyState leaves OPEN
SocketClosing(s) ==
    /\ sock[s].ready = "OPEN"
    /\ sock' = [sock EXCEPT ![s].ready = "CLOSING"]
    /\ UNCHANGED <<urlOk, connected, socket, aborted, nsock, start, send, closeCalls, cb, recv>>

\* an onclose handler that opens a new socket at once
SocketCloseReconnects(s) ==
    /\ sock[s].ready \in {"OPEN", "CLOSING"}
    /\ nsock + 1 \in Sockets
    /\ sock' = [sock EXCEPT ![s].ready = "CLOSED",
                            ![nsock + 1] = [ready |-> "CONNECTING", byClose |-> FALSE]]
    /\ nsock' = nsock + 1
    /\ socket' = nsock + 1
    /\ connected' = FALSE
    /\ cb' = OnClose(s, cb)
    /\ UNCHANGED <<urlOk, aborted, start, send, closeCalls, recv>>

\* the socket emits 'close': socket.onclose, lines 135-138
SocketClose(s) ==
    /\ sock[s].ready \in {"OPEN", "CLOSING"}
    /\ sock' = [sock EXCEPT ![s].ready = "CLOSED"]
    /\ connected' = FALSE
    /\ cb' = OnClose(s, cb)
    /\ UNCHANGED <<urlOk, socket, aborted, nsock, start, send, closeCalls, recv>>

\* ------------------------------------------------------------------ close()
\* a close() that installs a fresh AbortController after aborting the old one
CloseRenewsToken ==
    /\ closeCalls' = closeCalls + 1
    /\ connected' = FALSE
    /\ aborted' = FALSE
    /\ sock' = [s \in Sockets |->
            IF s = socket /\ sock[s].ready = "OPEN"
            THEN [ready |-> "CLOSING", byClose |-> TRUE]
            ELSE sock[s]]
    /\ socket' = 0
    /\ cb' = [cb EXCEPT !.close = @ + 1, !.closeByClose = @ + 1]
    /\ UNCHANGED <<urlOk, nsock, start, send, recv>>

\* close(), lines 168-181
Close ==
    /\ closeCalls' = closeCalls + 1
    /\ connected' = FALSE
    /\ aborted' = TRUE
    /\ sock' = [s \in Sockets |->
            IF s = socket /\ sock[s].ready = "OPEN"
            THEN [ready |-> "CLOSING", byClose |-> TRUE]
            ELSE IF sock[s].ready = "CONNECTING" /\ ~aborted
            THEN [sock[s] EXCEPT !.byClose = TRUE]
            ELSE sock[s]]
    /\ socket' = 0
    /\ cb' = [cb EXCEPT !.close = @ + 1, !.closeByClose = @ + 1]
    /\ UNCHANGED <<urlOk, nsock, start, send, recv>>

\* ------------------------------------------------------------------- send()
\* the catch block of send(), lines 214-225, on the call's record
SendCatch(sd, error) ==
    IF sd.attempts + 1 = MAX_RETRIES
    THEN [sd EXCEPT !.attempts = @ + 1, !.pc = "failed", !.err = error]
    ELSE [sd EXCEPT !.attempts = @ + 1, !.pc = "backoff"]

\* a catch block that reports every failed attempt to the error callback
SendReportEach(sd, error) ==
    [cb EXCEPT !.error = @ + 1, !.lastError = Seen(error)]

\* this.onerror?.(error) of lines 217-221: only on the final attempt
SendReport(sd, error) ==
    IF sd.attempts + 1 = MAX_RETRIES
    THEN [cb EXCEPT !.error = @ + 1, !.lastError = Seen(error)]
    ELSE cb

\* an attempt of send() call c fails with error: lines 214-225
SendFail(c, sd, tag, error) ==
    /\ send' = [send EXCEPT ![c] =
            SendCatch([sd EXCEPT !.hist = Append(@, tag),
                                 !.errCb = @ + (SendReport(sd, error).error - cb.error)], error)]
    /\ cb' = SendReport(sd, error)

\* one pass of the loop body up to the write, lines 190-211
SendAttempt(c, sd) ==
    IF socket = 0
    THEN SendFail(c, sd, "nosocket", TypeError)
    ELSE IF sock[socket].ready # "OPEN"
    THEN SendFail(c, sd, "notopen", SocketNotOpen)
    ELSE /\ send' = [send EXCEPT ![c] = [sd EXCEPT !.pc = "writing", !.writes = @ + 1]]
         /\ cb' = cb

\* a guard that looks at the socket handle only
MayNotSendHandleOnly == socket = 0

\* the guard of send(), line 184
MayNotSend == socket = 0 \/ ~connected

\* send(), lines 183-211: the call up to its first await
Send(c) ==
    /\ send[c].pc = "idle"
    /\ c > 1 => send[c - 1].pc # "idle"
    /\ IF MayNotSend
       THEN /\ send' = [send EXCEPT ![c] =
                    [@ EXCEPT !.pc = "failed", !.err = NotConnected,
                              !.connectedAtCall = connected]]
            /\ cb' = cb
       ELSE SendAttempt(c, [send[c] EXCEPT !.connectedAtCall = connected])
    /\ UNCHANGED <<urlOk, connected, socket, aborted, nsock, sock, start, closeCalls, recv>>

\* a write callback after which send() does not return: the loop writes again
WriteDoneNoReturn(c, ok) ==
    /\ send[c].pc = "writing"
    /\ IF ok
       THEN /\ send' = [send EXCEPT ![c] =
                    [@ EXCEPT !.hist = Append(@, "ok"), !.writes = @ + 1]]
            /\ cb' = cb
       ELSE SendFail(c, send[c], "writefailed", FailedToSend(send[c].attempts + 1))
    /\ UNCHANGED <<urlOk, connected, socket, aborted, nsock, sock, start, closeCalls, recv>>

\* the write's callback, lines 197-205 (or the throw caught at line 206): no
\* error resolves send() at line 213, an error is caught at line 214
WriteDone(c, ok) ==
    /\ send[c].pc = "writing"
    /\ IF ok
       THEN /\ send' = [send EXCEPT ![c] =
                    [@ EXCEPT !.pc = "resolved", !.hist = Append(@, "ok")]]
            /\ cb' = cb
       ELSE SendFail(c, send[c], "writefailed", FailedToSend(send[c].attempts + 1))
    /\ UNCHANGED <<urlOk, connected, socket, aborted, nsock, sock, start, closeCalls, recv>>

\* delay(RETRY_DELAY_MS) of line 224 elapses and the loop makes its next pass
SendRetry(c) ==
    /\ send[c].pc = "backoff"
    /\ SendAttempt(c, [send[c] EXCEPT !.waited = @ + RETRY_DELAY_MS])
    /\ UNCHANGED <<urlOk, connected, socket, aborted, nsock, sock, start, closeCalls, recv>>

\* ---------------------------------------------------------------- receiving
\* event.data: its shape, and the text it holds
Shapes == {"string", "Buffer", "ArrayBuffer", "BufferArray"}
Texts == {"not json", "{}", "{\"method\":\"ping\"}", "{\"result\":\"pong\"}"}
Payloads == [shape : Shapes, text : Texts]

Fail(cause) == [ok |-> FALSE, cause |-> cause, value |-> ""]
Ok(value) == [ok |-> TRUE, cause |-> "", value |-> value]

\* lines 142-151: the payload as a string
DataString(p) ==
    IF p.shape = "string" THEN Ok(p.text)
    ELSE IF p.shape = "Buffer" THEN Ok(p.text)
    ELSE IF p.shape = "ArrayBuffer" THEN Ok(p.text)
    ELSE Fail("UnsupportedDataType")

\* JSON.parse of line 153
JSONParse(text) ==
    CASE text = "{}" -> Ok("object")
      [] text = "{\"method\":\"ping\"}" -> Ok("request ping")
      [] text = "{\"result\":\"pong\"}" -> Ok("response pong")
      [] OTHER -> Fail("SyntaxError")

\* JSONRPCMessageSchema.parse of line 153: a request or a response passes
SchemaParse(value) ==
    IF value \in {"request ping", "response pong"} THEN Ok(value) ELSE Fail("ZodError")

\* the try block of socket.onmessage, lines 141-154
Decode(p) ==
    IF ~DataString(p).ok THEN DataString(p)
    ELSE IF ~JSONParse(DataString(p).value).ok THEN JSONParse(DataString(p).value)
    ELSE SchemaParse(JSONParse(DataString(p).value).value)

\* an inbound payload of a supported shape whose text is not a protocol message
Malformed(p) == p.shape # "BufferArray" /\ p.text \in {"not json", "{}"}
\* an inbound payload of a supported shape whose text is a protocol message
WellFormed(p) ==
    p.shape # "BufferArray" /\ p.text \in {"{\"method\":\"ping\"}", "{\"result\":\"pong\"}"}
\* the protocol message a well-formed payload holds
MessageOf(p) == IF p.text = "{\"method\":\"ping\"}" THEN "request ping" ELSE "response pong"

\* what a frame carries: its protocol message, or none
Carried(p) == IF WellFormed(p) THEN MessageOf(p) ELSE "none"

\* a handler that hands the newest message over first
OnMessageNewestFirst(s, p) ==
    /\ sock[s].ready \in {"OPEN", "CLOSING"}
    /\ recv.frames < MaxFrames
    /\ IF Decode(p).ok
       THEN /\ recv' = [frames |-> recv.frames + 1, last |-> <<p>>,
                        log |-> Append(recv.log, Carried(p)),
                        delivered |-> <<Decode(p).value>> \o recv.delivered]
            /\ cb' = cb
       ELSE /\ recv' = [recv EXCEPT !.frames = @ + 1, !.last = <<p>>,
                                    !.log = Append(@, Carried(p))]
            /\ cb' = [cb EXCEPT !.error = @ + 1,
                                !.lastError = Seen(FailedToParse(Decode(p).cause))]
    /\ UNCHANGED <<urlOk, connected, socket, aborted, nsock, sock, start, send, closeCalls>>

\* a handler that lets the decode error escape instead of reporting it
OnMessageThrows(s, p) ==
    /\ sock[s].ready \in {"OPEN", "CLOSING"}
    /\ recv.frames < MaxFrames
    /\ IF Decode(p).ok
       THEN recv' = [frames |-> recv.frames + 1, last |-> <<p>>,
                     log |-> Append(recv.log, Carried(p)),
                     delivered |-> Append(recv.delivered, Decode(p).value)]
       ELSE recv' = [recv EXCEPT !.frames = @ + 1, !.last = <<p>>,
                                 !.log = Append(@, Carried(p))]
    /\ cb' = cb
    /\ UNCHANGED <<urlOk, connected, socket, aborted, nsock, sock, start, send, closeCalls>>

\* socket.onmessage, lines 140-161
OnMessage(s, p) ==
    /\ sock[s].ready \in {"OPEN", "CLOSING"}
    /\ recv.frames < MaxFrames
    /\ IF Decode(p).ok
       THEN /\ recv' = [frames |-> recv.frames + 1, last |-> <<p>>,
                        log |-> Append(recv.log, Carried(p)),
                        delivered |-> Append(recv.delivered, Decode(p).value)]
            /\ cb' = cb
       ELSE /\ recv' = [recv EXCEPT !.frames = @ + 1, !.last = <<p>>,
                                    !.log = Append(@, Carried(p))]
            /\ cb' = [cb EXCEPT !.error = @ + 1,
                                !.lastError = Seen(FailedToParse(Decode(p).cause))]
    /\ UNCHANGED <<urlOk, connected, socket, aborted, nsock, sock, start, send, closeCalls>>

\* the socket events
SocketEvent(s) ==
    \/ SocketOpen(s)
    \/ SocketConnectError(s)
    \/ SocketError(s)
    \/ SocketClosing(s)
    \/ SocketClose(s)

\* the connection lifecycle: start(), close() and the socket events
Next ==
    \/ \E c \in 1..MaxStarts : Start(c)
    \/ \E c \in 1..MaxStarts : StartRetry(c)
    \/ \E s \in Sockets : SocketEvent(s)
    \/ closeCalls < MaxCloses /\ Close

Spec == Init /\ [][Next]_vars

\* the send path over the connection lifecycle
NextSend ==
    \/ \E c \in 1..SendStarts : Start(c)
    \/ \E c \in 1..SendStarts : StartRetry(c)
    \/ \E s \in Sockets : SocketEvent(s)
    \/ closeCalls < SendCloses /\ Close
    \/ \E c \in 1..MaxSends : Send(c)
    \/ \E c \in 1..MaxSends : SendRetry(c)
    \/ \E c \in 1..MaxSends, ok \in BOOLEAN : WriteDone(c, ok)

SpecSend == Init /\ [][NextSend]_vars

\* the consumer has awaited its earlier start() calls before it makes call c
Awaited(c) == \A b \in 1..(c - 1) : start[b].pc \in {"resolved", "failed"}

\* the send path over reconnections: the consumer awaits each start() call
\* before the next one, calls send() at any time and does not call close()
NextResend ==
    \/ \E c \in 1..ResendStarts : Awaited(c) /\ Start(c)
    \/ \E c \in 1..ResendStarts : StartRetry(c)
    \/ \E s \in Sockets : SocketEvent(s)
    \/ \E c \in 1..MaxSends : Send(c)
    \/ \E c \in 1..MaxSends : SendRetry(c)
    \/ \E c \in 1..MaxSends, ok \in BOOLEAN : WriteDone(c, ok)

SpecResend == Init /\ [][NextResend]_vars

\* the receive path over the connection lifecycle: the consumer awaits each
\* start() call before the next one
NextRecv ==
    \/ \E c \in 1..RecvStarts : Awaited(c) /\ Start(c)
    \/ \E c \in 1..RecvStarts : StartRetry(c)
    \/ \E s \in Sockets : SocketEvent(s)
    \/ closeCalls < RecvCloses /\ Close
    \/ \E s \in Sockets, p \in Payloads : OnMessage(s, p)

SpecRecv == Init /\ [][NextRecv]_vars

\* the consumer has awaited its earlier send() calls before it makes call c
Sent(c) == \A b \in 1..(c - 1) : send[b].pc \in {"resolved", "failed"}

\* a consumer that awaits each call before the next one of its kind, and may
\* call close() at any time
NextFair ==
    \/ \E c \in 1..FairStarts : Awaited(c) /\ Start(c)
    \/ \E c \in 1..FairStarts : StartRetry(c)
    \/ \E s \in Sockets : SocketEvent(s)
    \/ closeCalls < FairCloses /\ Close
    \/ \E c \in 1..FairSends : Sent(c) /\ Send(c)
    \/ \E c \in 1..FairSends : SendRetry(c)
    \/ \E c \in 1..FairSends, ok \in BOOLEAN : WriteDone(c, ok)

\* every socket that is connecting signals open or error, every write reports
\* success or failure, and the timers of delay(RETRY_DELAY_MS) elapse
Fairness ==
    /\ \A s \in Sockets : WF_vars(SocketOpen(s) \/ SocketConnectError(s))
    /\ \A c \in SendCalls : WF_vars(\E ok \in BOOLEAN : WriteDone(c, ok))
    /\ \A c \in StartCalls : WF_vars(StartRetry(c))
    /\ \A c \in SendCalls : WF_vars(SendRetry(c))

SpecFair == Init /\ [][NextFair]_vars /\ Fairness

\* ------------------------------------------------------------------- claims
\* start() calls that went past the guard of lines 96-98 and have ended
Resolved(c) == start[c].pc = "resolved" /\ ~start[c].noop
Failed(c) == start[c].pc = "failed"

\* the socket of the attempt start() call c awaits signals open in this step
OpensFor(c) ==
    /\ start[c].pc = "connecting"
    /\ sock[start[c].sock].ready = "CONNECTING"
    /\ sock'[start[c].sock].ready = "OPEN"

\* C1 as stated: for every N <= 3, a start() call whose first N connect
\* attempts failed goes on to a further attempt and, when that one opens, has
\* succeeded with exactly N+1 attempts and N backoff waits of 1000 ms.
C1_AsStated ==
    \A c \in StartCalls :
        (start[c].pc \in {"resolved", "failed"} /\ ~start[c].noop /\ start[c].attempts <= 3)
            => /\ start[c].pc = "resolved"
               /\ start[c].connects = start[c].attempts + 1
               /\ start[c].waited = start[c].attempts * 1000

\* C1, amended to N <= 2: when the first N <= 2 connect attempts of a start()
\* call have failed and the following attempt signals open, start() succeeds
\* and leaves the transport Connected; a start() that succeeded after N failed
\* attempts made exactly N+1 connect attempts and waited N times 1000 ms, and
\* N is at most 2.
C1_RetryThenOpen ==
    /\ [](\A c \in StartCalls :
            Resolved(c) => /\ start[c].attempts <= 2
                           /\ start[c].connects = start[c].attempts + 1
                           /\ start[c].waited = start[c].attempts * 1000)
    /\ [][\A c \in StartCalls :
            OpensFor(c) => /\ start[c].attempts <= 2
                           /\ start'[c].pc = "resolved"
                           /\ start'[c].attempts = start[c].attempts
                           /\ connected']_vars

\* a start() call has succeeded on its third attempt, after two failures
C1_Witness ==
    \E c \in StartCalls :
        Resolved(c) /\ start[c].attempts = 2 /\ start[c].connects = 3 /\ connected

\* the error of the last attempt of start() call c
LastAttemptError(c) ==
    IF urlOk THEN ConnectionError(start[c].sock) ELSE ConstructorError

\* C2: a start() call whose 3 connect attempts all failed has failed with the
\* error of its last attempt, after exactly 3 connect attempts (a call with 3
\* failed attempts makes no 4th), and the transport is not Connected when it
\* fails.
C2_ThreeFailures ==
    /\ [](\A c \in StartCalls :
            /\ start[c].attempts = 3 => Failed(c)
            /\ Failed(c) => /\ start[c].attempts = 3
                             /\ start[c].connects = 3
                             /\ start[c].waited = 2 * 1000
                             /\ start[c].err = LastAttemptError(c)
                             /\ start[c].err.kind \in {"ConnectionError", "ConstructorError"})
    /\ [][\A c \in StartCalls :
            (~Failed(c) /\ Failed(c)') => ~connected']_vars

\* a start() call has failed on socket errors while another socket was created
C2_Witness ==
    \E c \in StartCalls :
        Failed(c) /\ start[c].err.kind = "ConnectionError" /\ start[c].connects = 3

\* C3: a send() call made while this.connected is false (never started, still
\* connecting, after an unsolicited disconnect, after close()) has failed with
\* NotConnected at once: no attempt, no socket write, no backoff wait, no error
\* callback, and it stays failed.
C3_NotConnected ==
    \A c \in SendCalls :
        (send[c].pc # "idle" /\ ~send[c].connectedAtCall)
            => /\ send[c].pc = "failed"
               /\ send[c].err = NotConnected
               /\ send[c].attempts = 0
               /\ send[c].writes = 0
               /\ send[c].waited = 0
               /\ send[c].hist = <<>>
               /\ send[c].errCb = 0

\* a send() was refused after an unsolicited disconnect: the handle is still
\* held, the socket is closed and this.connected is false
C3_Witness ==
    \E c \in SendCalls :
        /\ send[c].pc = "failed"
        /\ send[c].err = NotConnected
        /\ ~send[c].connectedAtCall
        /\ socket # 0
        /\ sock[socket].ready = "CLOSED"

\* C4: a send() whose 3 writes all failed has failed with the delivery error of
\* its third attempt and has invoked the error callback exactly once; a send()
\* whose first two writes failed and whose third succeeded has resolved and has
\* not invoked the error callback; no send() call invokes it more than once.
C4_SendRetries ==
    \A c \in SendCalls :
        /\ send[c].hist = <<"writefailed", "writefailed", "writefailed">>
            => /\ send[c].pc = "failed"
               /\ send[c].err = FailedToSend(3)
               /\ send[c].writes = 3
               /\ send[c].errCb = 1
        /\ send[c].hist = <<"writefailed", "writefailed", "ok">>
            => /\ send[c].pc = "resolved"
               /\ send[c].writes = 3
               /\ send[c].errCb = 0
        /\ send[c].errCb <= 1
        /\ send[c].pc # "failed" => send[c].errCb = 0

\* a send() has failed after three failed writes
C4_Witness ==
    \E c \in SendCalls :
        /\ send[c].pc = "failed"
        /\ send[c].hist = <<"writefailed", "writefailed", "writefailed">>
        /\ cb.lastError = Seen(FailedToSend(3))

\* C5 as stated: the close callback has been invoked, by close() itself or by
\* the 'close' event of a socket that close() closed or aborted, exactly once
\* per close() call made.
C5_AsStated == cb.closeByClose = closeCalls

\* C6 as stated: this.connected implies that this.socket is present and open.
C6_AsStated == connected => (socket # 0 /\ sock[socket].ready = "OPEN")

\* C7 as stated: at most one connect attempt (a socket that has signalled
\* neither open nor error, awaited by a start() call) is in flight.
C7_AsStated ==
    Cardinality({c \in StartCalls : start[c].pc = "connecting"}) <= 1

\* C8 as stated: a send() call that has failed has failed with NotConnected,
\* SocketNotOpen or a delivery error.
C8_AsStated ==
    \A c \in SendCalls :
        send[c].pc = "failed"
            => send[c].err.kind \in {"NotConnected", "SocketNotOpen", "FailedToSend"}

\* C9 as stated, for a URL the socket constructor accepts: a start() call that
\* has failed has invoked the error callback exactly once, and one that has
\* succeeded has not invoked it.
C9_AsStated ==
    urlOk => \A c \in StartCalls :
                /\ Failed(c) => start[c].errCb = 1
                /\ Resolved(c) => start[c].errCb = 0

\* C10: an inbound frame that fails the structural parse or the schema
\* validation invokes the error callback once, with the parse error and its
\* cause, and no message callback, and changes neither this.connected, nor
\* this.socket, nor any socket; a well-formed frame, whatever came before it, is
\* delivered to the message callback and invokes no error callback.
C10_MalformedFrame ==
    [][recv'.frames = recv.frames + 1 =>
        /\ Malformed(recv'.last[1]) =>
            /\ cb'.error = cb.error + 1
            /\ cb'.lastError.kind = "FailedToParse"
            /\ cb'.lastError.cause \in {"SyntaxError", "ZodError"}
            /\ recv'.delivered = recv.delivered
            /\ connected' = connected
            /\ socket' = socket
            /\ sock' = sock
        /\ WellFormed(recv'.last[1]) =>
            /\ recv'.delivered = Append(recv.delivered, MessageOf(recv'.last[1]))
            /\ cb'.error = cb.error]_vars

\* a well-formed frame has been delivered after a malformed one was reported
C10_Witness ==
    /\ recv.frames = 2
    /\ WellFormed(recv.last[1])
    /\ recv.delivered = <<MessageOf(recv.last[1])>>
    /\ cb.lastError.kind = "FailedToParse"
    /\ cb.lastError.cause = "SyntaxError"
    /\ connected

\* socket s, which had opened, emits 'close' in this step
Drops(s) == sock[s].ready \in {"OPEN", "CLOSING"} /\ sock'[s].ready = "CLOSED"

C12_AsStated ==
    [][/\ closeCalls' # closeCalls => socket' = 0
       /\ \A s \in Sockets : (Drops(s) /\ socket = s) => socket' = 0]_vars

\* the attempts of send() call c, among its first k, that wrote to the socket
Wrote(c, k) == {i \in 1..k : send[c].hist[i] \in {"ok", "writefailed"}}

\* C13 as stated: a send() call resolved by the write of its attempt k has
\* performed exactly k writes.
C13_AsStated ==
    \A c \in SendCalls :
        send[c].pc = "resolved" => send[c].writes = Len(send[c].hist)

\* C13, amended: a send() call is resolved by its first successful write and
\* does nothing after it: when the write of attempt k succeeds the call has
\* made k attempts, k-1 backoff waits and one write for each attempt that found
\* the socket open, so at most k writes, and exactly k when each earlier
\* attempt failed in its write.
C13_FirstSuccess ==
    \A c \in SendCalls :
        /\ (\E i \in 1..Len(send[c].hist) : send[c].hist[i] = "ok")
                => send[c].pc = "resolved"
        /\ send[c].pc = "resolved" =>
            LET k == Len(send[c].hist) IN
                /\ k \in 1..3
                /\ send[c].hist[k] = "ok"
                /\ \A i \in 1..(k - 1) : send[c].hist[i] # "ok"
                /\ send[c].attempts = k - 1
                /\ send[c].waited = (k - 1) * 1000
                /\ send[c].writes = Cardinality(Wrote(c, k))
                /\ (\A i \in 1..(k - 1) : send[c].hist[i] = "writefailed")
                        => send[c].writes = k

\* a send() whose first attempt found the socket not open was resolved by the
\* write of its second attempt, on the socket of a later start()
C13_Witness ==
    \E c \in SendCalls :
        /\ send[c].pc = "resolved"
        /\ send[c].hist = <<"notopen", "ok">>
        /\ send[c].writes = 1

\* the protocol messages the frames emitted so far carried, in emission order
Carrying(log) == SelectSeq(log, LAMBDA m : m # "none")

\* C14: the messages delivered to the message callback are exactly the
\* protocol messages of the well-formed frames the sockets emitted, one per
\* frame and in the order of emission, whatever frames came in between.
C14_DeliveryOrder ==
    /\ Len(recv.log) = recv.frames
    /\ recv.delivered = Carrying(recv.log)

\* two messages were delivered in order around a frame that carried none
C14_Witness ==
    /\ recv.log = <<"request ping", "none", "response pong">>
    /\ recv.delivered = <<"request ping", "response pong">>

\* C16 as stated: a frame whose payload is neither a string nor binary invokes
\* the error callback with an UnsupportedPayload error, which is not the error
\* a malformed frame is reported with, and no message callback.
C16_AsStated ==
    [][(recv'.frames = recv.frames + 1 /\ recv'.last[1].shape = "BufferArray") =>
            /\ cb'.error = cb.error + 1
            /\ cb'.lastError.kind # "FailedToParse"
            /\ recv'.delivered = recv.delivered]_vars

\* start() call c is made in this step
Called(c) == start[c].pc = "idle" /\ start'[c].pc # "idle"

\* C15: a start() call made while this.connected is true resolves in that
\* step, creates no socket, makes no connect attempt and no backoff wait, and
\* changes neither this.connected, nor this.socket, nor any socket; it never
\* does anything later.
C15_StartNoOp ==
    /\ [][\A c \in StartCalls :
            (Called(c) /\ connected) =>
                /\ start'[c] = [StartIdle EXCEPT !.pc = "resolved", !.noop = TRUE]
                /\ nsock' = nsock
                /\ sock' = sock
                /\ socket' = socket
                /\ connected' = connected
                /\ cb' = cb]_vars
    /\ [](\A c \in StartCalls :
            start[c].noop => /\ start[c].pc = "resolved"
                             /\ start[c].connects = 0
                             /\ start[c].attempts = 0
                             /\ start[c].waited = 0)

\* a second start() call returned at once on a Connected transport: one socket
\* exists, and it is the open one this.socket names
C15_Witness ==
    /\ connected
    /\ nsock = 1
    /\ socket = 1
    /\ sock[1].ready = "OPEN"
    /\ \E c \in StartCalls : start[c].noop /\ start[c].pc = "resolved"

\* the attempts of send() call c that performed no write
Unwritten(c) == {i \in 1..Len(send[c].hist) : send[c].hist[i] \notin {"ok", "writefailed"}}

\* C17: an attempt of send() that performs no write is one that found the
\* socket out of the OPEN state and failed as SocketNotOpen; a send() none of
\* whose attempts wrote fails with SocketNotOpen after exactly MAX_RETRIES
\* attempts and no write.
C17_AsStated ==
    \A c \in SendCalls :
        /\ \A i \in Unwritten(c) : send[c].hist[i] = "notopen"
        /\ Cardinality(Wrote(c, Len(send[c].hist))) = send[c].writes
                \/ send[c].pc = "writing"
        /\ (send[c].pc = "failed" /\ send[c].hist # <<>> /\ send[c].writes = 0)
                => /\ send[c].err = SocketNotOpen
                   /\ send[c].attempts = MAX_RETRIES
                   /\ Len(send[c].hist) = MAX_RETRIES

\* start() call c, or send() call c, has ended
StartDone(c) == start[c].pc \in {"resolved", "failed"}
SendDone(c) == send[c].pc \in {"resolved", "failed"}

\* C18: when every connecting socket signals open or error and every write
\* reports, each start() and each send() call ends, within MAX_RETRIES
\* attempts and MAX_RETRIES - 1 backoff waits, none after the final failure;
\* and a start() call leaves its await of _connect() only by the open or error
\* signal of its socket, so that it never ends when the socket stays silent.
C18_Termination ==
    /\ \A c \in StartCalls : (start[c].pc # "idle") ~> StartDone(c)
    /\ \A c \in SendCalls : (send[c].pc # "idle") ~> SendDone(c)
    /\ [](\A c \in StartCalls :
            /\ start[c].connects <= MAX_RETRIES
            /\ start[c].attempts <= MAX_RETRIES
            /\ start[c].waited <= (MAX_RETRIES - 1) * RETRY_DELAY_MS
            /\ start[c].pc = "failed" => start[c].waited = (start[c].attempts - 1) * RETRY_DELAY_MS)
    /\ [](\A c \in SendCalls :
            /\ Len(send[c].hist) <= MAX_RETRIES
            /\ send[c].attempts <= MAX_RETRIES
            /\ send[c].waited <= (MAX_RETRIES - 1) * RETRY_DELAY_MS
            /\ (send[c].pc = "failed" /\ send[c].hist # <<>>)
                    => send[c].waited = (send[c].attempts - 1) * RETRY_DELAY_MS)
    /\ [][\A c \in StartCalls :
            (start[c].pc = "connecting" /\ start'[c].pc # "connecting")
                => /\ sock[start[c].sock].ready = "CONNECTING"
                   /\ sock'[start[c].sock].ready \in {"OPEN", "CLOSED"}]_vars

\* a start() call resolved on its last attempt after two waits, and a send()
\* call then failed on its last attempt after two waits
C18_Witness ==
    /\ \E c \in StartCalls : /\ Resolved(c)
                             /\ start[c].connects = MAX_RETRIES
                             /\ start[c].waited = (MAX_RETRIES - 1) * RETRY_DELAY_MS
    /\ \E c \in SendCalls : /\ send[c].pc = "failed"
                            /\ Len(send[c].hist) = MAX_RETRIES
                            /\ send[c].waited = (MAX_RETRIES - 1) * RETRY_DELAY_MS

\* C19: the signal of this.abortController, once aborted, stays aborted; from
\* the first close() call on it is aborted, this.connected is false for ever,
\* and no start() call resolves any more: each of its connect attempts fails.
C19_ClosedForGood ==
    /\ [][aborted => aborted']_vars
    /\ [](closeCalls > 0 => (aborted /\ ~connected))
    /\ [][closeCalls > 0 =>
            \A c \in StartCalls : start'[c].pc = "resolved" => start[c].pc = "resolved"]_vars

\* close() was called once, a connect attempt made after it has failed, and
\* so has the start() call that made it
C19_Witness ==
    /\ closeCalls = 1
    /\ socket # 0
    /\ sock[socket].ready = "CLOSED"
    /\ ~connected
    /\ \E c \in StartCalls : Failed(c) /\ start[c].sock = socket

\* socket s, which this.socket does not name, emits its 'close' event (after
\* an 'error' event when its handshake failed)
StaleEvent(s) == s # socket /\ sock[s].ready # "CLOSED" /\ sock'[s].ready = "CLOSED"

\* C20: the close and error events of a socket that this.socket no longer
\* names change neither this.connected nor the count of close and error
\* callbacks.
C20_AsStated ==
    [][\A s \in Sockets : StaleEvent(s) => (connected' = connected /\ cb' = cb)]_vars
====
